---- MODULE Spec2Model ----
(***************************************************************************)
(* A model of es6/Evts.mjs: the classes Evt and CompoundEvt.               *)
(*                                                                         *)
(* JavaScript values are records [t, v]: t is the type tag and v the       *)
(* identity (symbol number, function number, event number) or the number.  *)
(* The handler lists hold function numbers only, because every push is     *)
(* guarded by typeof handler == "function".                                *)
(*                                                                         *)
(* A fire (Evt.call) runs handlers synchronously, and a handler may call   *)
(* any method of any event before it returns.  The model therefore keeps   *)
(* the JavaScript call stack of the fires in progress: one frame per       *)
(* executing Evt.call, holding the position of its for-of iterator, the    *)
(* array the iterator walks, the closure variable `cancelled` and the      *)
(* firing record.  Methods other than call are atomic.                     *)
(***************************************************************************)
EXTENDS Integers, Sequences, FiniteSets, TLC

\* ------------------------------------------------------------------ bounds
\* user handler functions are numbered 1..NumHandlers
NumHandlers == 2
\* Symbol() may be called at most MaxSym times (lock is disabled afterwards)
MaxSym == 2
\* Date.now() returns a value in 1..MaxNow
MaxNow == 2
\* at most MaxLog handler invocations are recorded per outermost fire
MaxLog == 8

\* ------------------------------------------------------------------ objects
\* the event objects of the model: one Evt and two CompoundEvt
S == 1
C == 2
D == 3
Evts == {S, C, D}
\* class CompoundEvt extends Evt
IsCompound(e) == e \in {C, D}

\* ------------------------------------------------------------------ values
Null == [t |-> "null", v |-> 0]
Undef == [t |-> "undefined", v |-> 0]
Sym(n) == [t |-> "symbol", v |-> n]
Fn(h) == [t |-> "function", v |-> h]
Obj(e) == [t |-> "Evt", v |-> e]
Num(n) == [t |-> "number", v |-> n]
Str(n) == [t |-> "string", v |-> n]
Bool(b) == [t |-> "boolean", v |-> IF b THEN 1 ELSE 0]

\* the closure  e => this.#call(e)  that compound c creates in bind
RelayBase == 10
Relay(c) == RelayBase + c
IsRelay(h) == h > RelayBase
RelayOwner(h) == h - RelayBase

\* JavaScript truthiness, as used by !x and x || y
Truthy(x) == /\ x.t \notin {"null", "undefined"}
             /\ ~(x.t \in {"number", "boolean"} /\ x.v = 0)
\* typeof x == "function"
IsFunction(x) == x.t = "function"
\* x instanceof Evt
InstanceOfEvt(x) == x.t = "Evt"
\* x || y
OrElse(x, y) == IF Truthy(x) THEN x ELSE y
\* a parameter with default value null
DefaultNull(x) == IF x = Undef THEN Null ELSE x
\* arguments[i-1], undefined when absent
Arg(args, i) == IF i <= Len(args) THEN args[i] ELSE Undef

Range(s) == {s[i] : i \in 1..Len(s)}

\* ------------------------------------------------------------------ state
VARIABLES
    priorityHandlers,   \* Evt.#priorityHandlers of each event
    handlers,           \* Evt.#handlers of each event
    key,                \* Evt.#key (CompoundEvt.#key for a compound)
    pending,            \* Evt.#pending
    evts,               \* CompoundEvt.#evts
    evtsData,           \* CompoundEvt.#evtsData
    symbols,            \* number of Symbol() calls made so far
    stack,              \* the executing Evt.call invocations, outermost first
    log,                \* handler invocations since the outermost fire began
    last,               \* the method call or dispatch step taken last
    modified,           \* events whose lists changed during their latest fire
    cancels,            \* events whose latest fire was cancelled
    atStart             \* the two lists of each event when its latest fire began
                        \* (the empty function when they are not recorded)

vars == <<priorityHandlers, handlers, key, pending, evts, evtsData, symbols,
          stack, log, last, modified, cancels, atStart>>

\* ------------------------------------------------------------------ arrays
\* Array.prototype.includes for a list of functions
Includes(list, x) == IsFunction(x) /\ x.v \in Range(list)
\* Array.prototype.indexOf, 0-based, -1 when absent
IndexOf(list, x) ==
    IF Includes(list, x)
    THEN (CHOOSE i \in 1..Len(list) :
            list[i] = x.v /\ \A j \in 1..(i - 1) : list[j] # x.v) - 1
    ELSE -1
\* Array.prototype.splice(start, 1): a negative start counts from the end
Splice1(list, start) ==
    LET n == Len(list)
        s == IF start < 0 THEN (IF n + start < 0 THEN 0 ELSE n + start)
             ELSE (IF start > n THEN n ELSE start)
    IN  IF s >= n THEN list
        ELSE IF n = 1 THEN <<>>
        ELSE [i \in 1..(n - 1) |-> IF i <= s THEN list[i] ELSE list[i + 1]]
\* Array.prototype.push of a function
Push(list, x) == Append(list, x.v)

\* ------------------------------------------------------------------ frames
\* the innermost executing Evt.call
Top == stack[Len(stack)]
\* user code runs at top level, or inside the user handler that the innermost
\* fire is executing (the relay closure is not user code)
CanAct == IF stack = <<>> THEN TRUE ELSE Top.running # 0 /\ ~IsRelay(Top.running)
\* what a method call leaves in `last`
Done(op, e, args, val) == [op |-> op, evt |-> e, args |-> args, val |-> val]
\* a firing record returned by call or passed to a handler, as a value
Instance(i) == [t |-> "instance", v |-> 0, caller |-> i.caller, evt |-> i.evt,
                data |-> i.data, time |-> i.time]
\* the two loops walking each other's array
Arr_Swapped(f) == IF ~f.live THEN f.arr
                  ELSE IF f.pc = "prio" THEN handlers[f.this]
                  ELSE priorityHandlers[f.this]

\* the array a for-of iterator of a frame walks: the event's current array, or
\* the array it started on when the field was reassigned meanwhile
Arr(f) == IF ~f.live THEN f.arr
          ELSE IF f.pc = "prio" THEN priorityHandlers[f.this]
          ELSE handlers[f.this]
\* `this.#priorityHandlers = []`: an iterator over the old array keeps it
DetachPriority(e) ==
    IF stack = <<>> THEN <<>> ELSE
    [i \in DOMAIN stack |->
        IF stack[i].this = e /\ stack[i].pc = "prio" /\ stack[i].live
        THEN [stack[i] EXCEPT !.live = FALSE, !.arr = priorityHandlers[e]]
        ELSE stack[i]]
\* `this.#handlers = []`
DetachNormal(e) ==
    IF stack = <<>> THEN <<>> ELSE
    [i \in DOMAIN stack |->
        IF stack[i].this = e /\ stack[i].pc = "norm" /\ stack[i].live
        THEN [stack[i] EXCEPT !.live = FALSE, !.arr = handlers[e]]
        ELSE stack[i]]

\* the events whose lists change in this step while their fire is in progress
Changed ==
    {e \in Evts : pending[e] /\ (priorityHandlers'[e] # priorityHandlers[e]
                                 \/ handlers'[e] # handlers[e])}
\* the events whose fire begins in this step
Entered == {e \in Evts : pending'[e] /\ ~pending[e]}
\* the events whose firing record is cancelled in this step
NewlyCancelled ==
    {e \in Evts : \E n \in 1..Len(stack) :
        /\ n <= Len(stack')
        /\ stack[n].this = e /\ ~stack[n].cancelled /\ stack'[n].cancelled}
\* the lists of an event that is not being fired
NoLists == [priority |-> <<>>, normal |-> <<>>]
\* bookkeeping of every step: which fires since the outermost fire began had
\* their lists modified or their record cancelled, and the lists each fire
\* in progress found when it began
Track ==
    /\ modified' = IF stack' = <<>> THEN {} ELSE (modified \cup Changed) \ Entered
    /\ cancels' = IF stack' = <<>> THEN {} ELSE (cancels \cup NewlyCancelled) \ Entered
    /\ atStart' = IF DOMAIN atStart = {} THEN atStart
                   ELSE [e \in Evts |->
                           IF e \in Entered
                           THEN [priority |-> priorityHandlers[e], normal |-> handlers[e]]
                           ELSE IF pending'[e] THEN atStart[e]
                           ELSE NoLists]

\* ------------------------------------------------------------------ locking
\* get locked () { return !!this.#key; }
locked(e) == Truthy(key[e])
\* the expression this.key: neither class defines a property named key
thisKey(e) == Undef

validateKey(e, k) == ~Truthy(key[e]) \/ key[e] = k

\* lock () handing out the symbol of the first lock again
lockResult_Reused(e) == IF Truthy(key[e]) THEN Null ELSE Sym(1)

\* lock (): the value returned
lockResult(e) == IF Truthy(key[e]) THEN Null ELSE Sym(symbols + 1)

Lock(e) ==
    /\ CanAct
    /\ Truthy(key[e]) \/ symbols < MaxSym
    /\ IF Truthy(key[e])
       THEN UNCHANGED <<key, symbols>>
       ELSE /\ key' = [key EXCEPT ![e] = lockResult(e)]
            /\ symbols' = symbols + 1
    /\ last' = Done("lock", e, <<>>, lockResult(e))
    /\ UNCHANGED <<priorityHandlers, handlers, pending, evts, evtsData, stack, log>>
    /\ Track

Unlock(e, k) ==
    /\ CanAct
    /\ IF key[e] # k
       THEN /\ UNCHANGED key
            /\ last' = Done("unlock", e, <<k>>, Null)
       ELSE /\ key' = [key EXCEPT ![e] = Null]
            /\ last' = Done("unlock", e, <<k>>, k)
    /\ UNCHANGED <<priorityHandlers, handlers, pending, evts, evtsData, symbols, stack, log>>
    /\ Track

\* ------------------------------------------------------------------ priority handlers
\* addPriorityHandler with unshift in place of push
addPriorityHandler_Front(e, list, args) ==
    LET k == Arg(args, 1)
        handler == IF Len(args) = 1 /\ ~Truthy(thisKey(e)) THEN k ELSE Arg(args, 2)
    IN  IF validateKey(e, k) /\ IsFunction(handler) /\ ~Includes(list, handler)
        THEN <<handler.v>> \o list
        ELSE list

\* addPriorityHandler (key, handler): the list afterwards
addPriorityHandler(e, list, args) ==
    LET k == Arg(args, 1)
        handler == IF Len(args) = 1 /\ ~Truthy(thisKey(e)) THEN k ELSE Arg(args, 2)
    IN  IF validateKey(e, k) /\ IsFunction(handler) /\ ~Includes(list, handler)
        THEN Push(list, handler)
        ELSE list

\* the for-of loop of addPriorityHandlers
RECURSIVE AddEach(_, _)
AddEach(list, hs) ==
    IF hs = <<>> THEN list
    ELSE AddEach(IF IsFunction(Head(hs)) /\ ~Includes(list, Head(hs))
                 THEN Push(list, Head(hs)) ELSE list,
                 Tail(hs))

\* the rest parameter ...handlers after the optional unshift of the first argument
RestHandlers(e, args) ==
    IF IsFunction(Arg(args, 1)) /\ ~Truthy(thisKey(e)) THEN args ELSE Tail(args)

addPriorityHandlers(e, list, args) ==
    IF validateKey(e, Arg(args, 1)) THEN AddEach(list, RestHandlers(e, args)) ELSE list

\* removePriorityHandler without the key check
removePriorityHandler_NoKey(e, list, args) ==
    LET handler == IF Len(args) = 1 /\ ~Truthy(thisKey(e)) THEN Arg(args, 1) ELSE Arg(args, 2)
    IN  IF Includes(list, handler) THEN Splice1(list, IndexOf(list, handler)) ELSE list

removePriorityHandler(e, list, args) ==
    LET k == Arg(args, 1)
        handler == IF Len(args) = 1 /\ ~Truthy(thisKey(e)) THEN k ELSE Arg(args, 2)
    IN  IF validateKey(e, k) /\ Includes(list, handler)
        THEN Splice1(list, IndexOf(list, handler))
        ELSE list

\* the for-of loop of removePriorityHandlers: the condition is
\* !this.#priorityHandlers.includes(handler), so indexOf is -1 when it splices
RECURSIVE RemoveEachPriority(_, _)
RemoveEachPriority(list, hs) ==
    IF hs = <<>> THEN list
    ELSE RemoveEachPriority(IF IsFunction(Head(hs)) /\ ~Includes(list, Head(hs))
                            THEN Splice1(list, IndexOf(list, Head(hs))) ELSE list,
                            Tail(hs))

removePriorityHandlers(e, list, args) ==
    IF validateKey(e, Arg(args, 1)) THEN RemoveEachPriority(list, RestHandlers(e, args)) ELSE list

AddPriorityHandler(e, args) ==
    /\ CanAct
    /\ priorityHandlers' = [priorityHandlers EXCEPT ![e] = addPriorityHandler(e, @, args)]
    /\ last' = Done("addPriorityHandler", e, args, Undef)
    /\ UNCHANGED <<handlers, key, pending, evts, evtsData, symbols, stack, log>>
    /\ Track

AddPriorityHandlers(e, args) ==
    /\ CanAct
    /\ priorityHandlers' = [priorityHandlers EXCEPT ![e] = addPriorityHandlers(e, @, args)]
    /\ last' = Done("addPriorityHandlers", e, args, Undef)
    /\ UNCHANGED <<handlers, key, pending, evts, evtsData, symbols, stack, log>>
    /\ Track

RemovePriorityHandler(e, args) ==
    /\ CanAct
    /\ priorityHandlers' = [priorityHandlers EXCEPT ![e] = removePriorityHandler(e, @, args)]
    /\ last' = Done("removePriorityHandler", e, args, Undef)
    /\ UNCHANGED <<handlers, key, pending, evts, evtsData, symbols, stack, log>>
    /\ Track

RemovePriorityHandlers(e, args) ==
    /\ CanAct
    /\ priorityHandlers' = [priorityHandlers EXCEPT ![e] = removePriorityHandlers(e, @, args)]
    /\ last' = Done("removePriorityHandlers", e, args, Undef)
    /\ UNCHANGED <<handlers, key, pending, evts, evtsData, symbols, stack, log>>
    /\ Track

ClearPriorityHandlers(e, k) ==
    /\ CanAct
    /\ IF validateKey(e, k)
       THEN /\ priorityHandlers' = [priorityHandlers EXCEPT ![e] = <<>>]
            /\ stack' = DetachPriority(e)
       ELSE UNCHANGED <<priorityHandlers, stack>>
    /\ last' = Done("clearPriorityHandlers", e, <<k>>, Undef)
    /\ UNCHANGED <<handlers, key, pending, evts, evtsData, symbols, log>>
    /\ Track

\* ------------------------------------------------------------------ normal handlers
\* addHandler without the includes check
addHandler_NoCheck(list, handler) ==
    IF IsFunction(handler) THEN Push(list, handler) ELSE list

addHandler(list, handler) ==
    IF IsFunction(handler) /\ ~Includes(list, handler) THEN Push(list, handler) ELSE list

RECURSIVE addHandlers(_, _)
addHandlers(list, hs) ==
    IF hs = <<>> THEN list ELSE addHandlers(addHandler(list, Head(hs)), Tail(hs))

removeHandler(list, handler) ==
    IF Includes(list, handler) THEN Splice1(list, IndexOf(list, handler)) ELSE list

RECURSIVE removeHandlers(_, _)
removeHandlers(list, hs) ==
    IF hs = <<>> THEN list ELSE removeHandlers(removeHandler(list, Head(hs)), Tail(hs))

AddHandler(e, args) ==
    /\ CanAct
    /\ handlers' = [handlers EXCEPT ![e] = addHandler(@, Arg(args, 1))]
    /\ last' = Done("addHandler", e, args, Undef)
    /\ UNCHANGED <<priorityHandlers, key, pending, evts, evtsData, symbols, stack, log>>
    /\ Track

AddHandlers(e, args) ==
    /\ CanAct
    /\ handlers' = [handlers EXCEPT ![e] = addHandlers(@, args)]
    /\ last' = Done("addHandlers", e, args, Undef)
    /\ UNCHANGED <<priorityHandlers, key, pending, evts, evtsData, symbols, stack, log>>
    /\ Track

RemoveHandler(e, args) ==
    /\ CanAct
    /\ handlers' = [handlers EXCEPT ![e] = removeHandler(@, Arg(args, 1))]
    /\ last' = Done("removeHandler", e, args, Undef)
    /\ UNCHANGED <<priorityHandlers, key, pending, evts, evtsData, symbols, stack, log>>
    /\ Track

RemoveHandlers(e, args) ==
    /\ CanAct
    /\ handlers' = [handlers EXCEPT ![e] = removeHandlers(@, args)]
    /\ last' = Done("removeHandlers", e, args, Undef)
    /\ UNCHANGED <<priorityHandlers, key, pending, evts, evtsData, symbols, stack, log>>
    /\ Track

\* on (...handlers): addHandler for exactly one argument, addHandlers otherwise
on(list, args) ==
    IF Len(args) = 1 THEN addHandler(list, args[1]) ELSE addHandlers(list, args)

On(e, args) ==
    /\ CanAct
    /\ handlers' = [handlers EXCEPT ![e] = on(@, args)]
    /\ last' = Done("on", e, args, Undef)
    /\ UNCHANGED <<priorityHandlers, key, pending, evts, evtsData, symbols, stack, log>>
    /\ Track

ClearHandlers(e) ==
    /\ CanAct
    /\ handlers' = [handlers EXCEPT ![e] = <<>>]
    /\ stack' = DetachNormal(e)
    /\ last' = Done("clearHandlers", e, <<>>, Undef)
    /\ UNCHANGED <<priorityHandlers, key, pending, evts, evtsData, symbols, log>>
    /\ Track

\* ------------------------------------------------------------------ firing
\* #getInstance({caller, evt: opts.overrideEvt || this, data, cancel,
\*               time: opts.overrideTime || Date.now()})
getInstance(e, caller, data, opts, now) ==
    [caller |-> DefaultNull(caller),
     evt    |-> OrElse(opts.overrideEvt, Obj(e)),
     data   |-> DefaultNull(data),
     time   |-> OrElse(opts.overrideTime, Num(now))]

\* the frame of a call that passed the guard: pending set, cancelled = false,
\* the iterator of the priority loop not yet advanced
NewFrame(e, caller, data, opts, now) ==
    [this |-> e, pc |-> "prio", idx |-> 0, live |-> TRUE, arr |-> <<>>,
     running |-> 0, cancelled |-> FALSE,
     instance |-> getInstance(e, caller, data, opts, now),
     base |-> Len(log)]

\* the guard of call without the key check / without the pending check
callRejected_NoKey(e, k) == pending[e]
callRejected_NoPending(e, k) == ~validateKey(e, k)

\* if (this.pending || !this.validateKey(key)) return null;
callRejected(e, k) == pending[e] \/ ~validateKey(e, k)

\* call (key, caller = null, data = null, opts = {}) by user code
Call(e, k, caller, data, opts, now) ==
    /\ CanAct
    /\ IF callRejected(e, k)
       THEN /\ last' = Done("call", e, <<k, caller, data>>, Null)
            /\ UNCHANGED <<pending, stack, log>>
       ELSE /\ pending' = [pending EXCEPT ![e] = TRUE]
            /\ stack' = Append(stack, NewFrame(e, caller, data, opts, now))
            /\ UNCHANGED log
            /\ last' = Done("enter", e, <<k, caller, data>>, Undef)
    /\ UNCHANGED <<priorityHandlers, handlers, key, evts, evtsData, symbols>>
    /\ Track

\* the entry of the log for the handler a frame invokes: handler(instance, this)
LogEntry(f, h) == [this |-> f.this, list |-> f.pc, handler |-> h,
                   instance |-> f.instance, depth |-> Len(stack)]
Record(entry, trace) ==
    IF trace /\ Len(log) < MaxLog THEN Append(log, entry) ELSE log

\* #call (e) without overrideEvt
RelayOpts_NoEvt(i) == [overrideEvt |-> Undef, overrideTime |-> i.time]

\* #call (e): the arguments the relay closure of compound c passes to call
RelayOpts(i) == [overrideEvt |-> i.evt, overrideTime |-> i.time]

\* #call (e) firing the compound without a key
relayKey_None(c) == Undef

\* #call (e): the key the relay closure passes to call, this.#key
relayKey(c) == key[c]

\* one iteration of either for-of loop: the iterator yields the next handler
\* and the loop body invokes it.  The relay closure of a compound is run up
\* to the guard of the compound's call.
Invoke(now, trace) ==
    /\ stack # <<>>
    /\ Top.running = 0
    /\ Top.idx < Len(Arr(Top))
    /\ Top.pc = "norm" => ~Top.cancelled
    /\ LET f == Top
           h == Arr(f)[f.idx + 1]
           g == [f EXCEPT !.idx = f.idx + 1, !.running = h]
           below == [stack EXCEPT ![Len(stack)] = g]
           c == RelayOwner(h)
       IN  /\ log' = Record(LogEntry(f, h), trace)
           /\ last' = Done("invoke", f.this, <<Fn(h)>>, Undef)
           /\ IF IsRelay(h) /\ ~callRejected(c, relayKey(c))
              THEN /\ pending' = [pending EXCEPT ![c] = TRUE]
                   /\ stack' = Append(below,
                          [NewFrame(c, f.instance.caller, f.instance.data,
                                    RelayOpts(f.instance), now)
                           EXCEPT !.base = Len(log')])
              ELSE /\ stack' = below
                   /\ UNCHANGED pending
    /\ UNCHANGED <<priorityHandlers, handlers, key, evts, evtsData, symbols>>
    /\ Track

\* the priority loop without  if (cancelled) break;
HandlerReturn_NoBreak ==
    /\ stack # <<>>
    /\ Top.running # 0
    /\ stack' = [stack EXCEPT ![Len(stack)] = [Top EXCEPT !.running = 0]]
    /\ last' = Done("handlerReturn", Top.this, <<Fn(Top.running)>>, Undef)
    /\ UNCHANGED <<priorityHandlers, handlers, key, pending, evts, evtsData, symbols, log>>
    /\ Track

\* the handler being run returns; in the priority loop: if (cancelled) break;
HandlerReturn ==
    /\ stack # <<>>
    /\ Top.running # 0
    /\ stack' = [stack EXCEPT ![Len(stack)] =
                    IF Top.pc = "prio" /\ Top.cancelled
                    THEN [Top EXCEPT !.running = 0, !.pc = "norm", !.idx = 0,
                                     !.live = TRUE, !.arr = <<>>]
                    ELSE [Top EXCEPT !.running = 0]]
    /\ last' = Done("handlerReturn", Top.this, <<Fn(Top.running)>>, Undef)
    /\ UNCHANGED <<priorityHandlers, handlers, key, pending, evts, evtsData, symbols, log>>
    /\ Track

\* the iterator of the priority loop is exhausted: the loop over
\* this.#handlers starts
PriorityLoopEnd ==
    /\ stack # <<>>
    /\ Top.running = 0
    /\ Top.pc = "prio"
    /\ Top.idx >= Len(Arr(Top))
    /\ stack' = [stack EXCEPT ![Len(stack)] =
                    [Top EXCEPT !.pc = "norm", !.idx = 0, !.live = TRUE, !.arr = <<>>]]
    /\ last' = Done("priorityLoopEnd", Top.this, <<>>, Undef)
    /\ UNCHANGED <<priorityHandlers, handlers, key, pending, evts, evtsData, symbols, log>>
    /\ Track

\* the loop over this.#handlers ends (exhausted, or cancelled):
\* this.#pending = false; return instance;
Finish ==
    /\ stack # <<>>
    /\ Top.running = 0
    /\ Top.pc = "norm"
    /\ Top.idx >= Len(Arr(Top)) \/ Top.cancelled
    /\ pending' = [pending EXCEPT ![Top.this] = FALSE]
    /\ stack' = SubSeq(stack, 1, Len(stack) - 1)
    /\ last' = Done("return", Top.this, <<>>, Instance(Top.instance))
    /\ log' = IF Len(stack) = 1 THEN <<>> ELSE log
    /\ UNCHANGED <<priorityHandlers, handlers, key, evts, evtsData, symbols>>
    /\ Track

\* cancel with one flag shared by all the fires in progress
Cancel_Shared(i) ==
    /\ stack # <<>>
    /\ CanAct
    /\ i \in DOMAIN stack
    /\ stack' = [n \in DOMAIN stack |-> [stack[n] EXCEPT !.cancelled = TRUE]]
    /\ last' = Done("cancel", stack[i].this, <<Num(i)>>, Bool(TRUE))
    /\ UNCHANGED <<priorityHandlers, handlers, key, pending, evts, evtsData, symbols, log>>
    /\ Track

\* cancel: () => cancelled = true, of the firing record of frame i, called by
\* the running user handler (it got the record as argument, or an outer
\* handler shared it); the arrow function returns the value assigned
Cancel(i) ==
    /\ stack # <<>>
    /\ CanAct
    /\ i \in DOMAIN stack
    /\ stack' = [stack EXCEPT ![i].cancelled = TRUE]
    /\ last' = Done("cancel", stack[i].this, <<Num(i)>>, Bool(TRUE))
    /\ UNCHANGED <<priorityHandlers, handlers, key, pending, evts, evtsData, symbols, log>>
    /\ Track

\* the running user handler throws.  Neither call nor the relay closure has
\* a try, catch or finally, so the exception leaves every call it passes
\* through at the handler invocation (line 273 or 280), with line 283 not
\* executed.  It is caught by the user code that made the call of frame
\* n + 1: the running user handler of frame n, or top-level code for n = 0.
Throw(n) ==
    /\ stack # <<>>
    /\ CanAct
    /\ n \in 0..(Len(stack) - 1)
    /\ n > 0 => ~IsRelay(stack[n].running)
    /\ stack' = SubSeq(stack, 1, n)
    /\ log' = IF n = 0 THEN <<>> ELSE log
    /\ last' = Done("throw", Top.this, <<Num(n)>>, Undef)
    /\ UNCHANGED <<priorityHandlers, handlers, key, pending, evts, evtsData, symbols>>
    /\ Track

\* ------------------------------------------------------------------ CompoundEvt
\* bind (key, evt, evtKey) after the shorthand swap of line 386
bindArgs(c, args) ==
    IF ~locked(c) /\ InstanceOfEvt(Arg(args, 1))
    THEN [key |-> Arg(args, 1), evt |-> Arg(args, 1), evtKey |-> Arg(args, 2)]
    ELSE [key |-> Arg(args, 1), evt |-> Arg(args, 2), evtKey |-> Arg(args, 3)]

\* the validation of bind without the check of the source's key
bindFails_NoSourceKey(c, a) ==
    \/ a.evt = Obj(c)
    \/ ~(InstanceOfEvt(a.evt) /\ validateKey(c, a.key))

bindFails(c, a) ==
    \/ a.evt = Obj(c)
    \/ ~(InstanceOfEvt(a.evt) /\ validateKey(c, a.key) /\ validateKey(a.evt.v, a.evtKey))

Bind(c, args) ==
    /\ CanAct
    /\ IsCompound(c)
    /\ LET a == bindArgs(c, args)
       IN  IF bindFails(c, a)
           THEN /\ last' = Done("bind", c, args, Null)
                /\ UNCHANGED <<priorityHandlers, evts, evtsData>>
           ELSE IF a.evt.v \in Range(evts[c])
           THEN /\ last' = Done("bind", c, args, Obj(c))
                /\ UNCHANGED <<priorityHandlers, evts, evtsData>>
           ELSE /\ priorityHandlers' = [priorityHandlers EXCEPT ![a.evt.v] =
                       addPriorityHandler(a.evt.v, @, <<a.evtKey, Fn(Relay(c))>>)]
                /\ evts' = [evts EXCEPT ![c] = Append(@, a.evt.v)]
                /\ evtsData' = [evtsData EXCEPT ![c] =
                       Append(@, [key |-> a.evtKey, handler |-> Relay(c)])]
                /\ last' = Done("bind", c, args, Obj(c))
    /\ UNCHANGED <<handlers, key, pending, symbols, stack, log>>
    /\ Track

\* unbind (key, evt) after the shorthand of line 408
unbindEvt(c, args) ==
    IF ~locked(c) /\ InstanceOfEvt(Arg(args, 1)) THEN Arg(args, 1) ELSE Arg(args, 2)

\* this.#evts.indexOf(evt), 1-based
EvtIndex(c, e) == CHOOSE i \in 1..Len(evts[c]) : evts[c][i] = e

\* unbind without the check of the key recorded at bind time
Unbind_NoSourceKey(c, args) ==
    /\ CanAct
    /\ IsCompound(c)
    /\ LET evt == unbindEvt(c, args)
       IN  IF ~(InstanceOfEvt(evt) /\ evt.v \in Range(evts[c]))
           THEN /\ last' = Done("unbind", c, args, Null)
                /\ UNCHANGED <<priorityHandlers, evts, evtsData>>
           ELSE LET i == EvtIndex(c, evt.v)
                    evtData == evtsData[c][i]
                IN  IF ~validateKey(c, Arg(args, 1))
                    THEN /\ last' = Done("unbind", c, args, Null)
                         /\ UNCHANGED <<priorityHandlers, evts, evtsData>>
                    ELSE /\ priorityHandlers' = [priorityHandlers EXCEPT ![evt.v] =
                                removePriorityHandler(evt.v, @, <<evtData.key, Fn(evtData.handler)>>)]
                         /\ evts' = [evts EXCEPT ![c] = Splice1(@, i - 1)]
                         /\ evtsData' = [evtsData EXCEPT ![c] = Splice1(@, i - 1)]
                         /\ last' = Done("unbind", c, args, Obj(c))
    /\ UNCHANGED <<handlers, key, pending, symbols, stack, log>>
    /\ Track

Unbind(c, args) ==
    /\ CanAct
    /\ IsCompound(c)
    /\ LET evt == unbindEvt(c, args)
       IN  IF ~(InstanceOfEvt(evt) /\ evt.v \in Range(evts[c]))
           THEN /\ last' = Done("unbind", c, args, Null)
                /\ UNCHANGED <<priorityHandlers, evts, evtsData>>
           ELSE LET i == EvtIndex(c, evt.v)
                    evtData == evtsData[c][i]
                IN  IF ~(validateKey(c, Arg(args, 1)) /\ validateKey(evt.v, evtData.key))
                    THEN /\ last' = Done("unbind", c, args, Null)
                         /\ UNCHANGED <<priorityHandlers, evts, evtsData>>
                    ELSE /\ priorityHandlers' = [priorityHandlers EXCEPT ![evt.v] =
                                removePriorityHandler(evt.v, @, <<evtData.key, Fn(evtData.handler)>>)]
                         /\ evts' = [evts EXCEPT ![c] = Splice1(@, i - 1)]
                         /\ evtsData' = [evtsData EXCEPT ![c] = Splice1(@, i - 1)]
                         /\ last' = Done("unbind", c, args, Obj(c))
    /\ UNCHANGED <<handlers, key, pending, symbols, stack, log>>
    /\ Track

\* ------------------------------------------------------------------ initial state
\* new Evt(name) / new CompoundEvt(name): the field initialisers; the field
\* #key of CompoundEvt has none
Constructed ==
    /\ priorityHandlers = [e \in Evts |-> <<>>]
    /\ handlers = [e \in Evts |-> <<>>]
    /\ key = [e \in Evts |-> IF IsCompound(e) THEN Undef ELSE Null]
    /\ pending = [e \in Evts |-> FALSE]
    /\ evts = [e \in Evts |-> <<>>]
    /\ evtsData = [e \in Evts |-> <<>>]
    /\ symbols = 0
    /\ stack = <<>>
    /\ log = <<>>
    /\ last = Done("new", S, <<>>, Undef)
    /\ modified = {}
    /\ cancels = {}

Init == Constructed /\ atStart = <<>>
\* the same objects, with the lists each fire finds when it begins recorded
InitRecording == Constructed /\ atStart = [e \in Evts |-> NoLists]

\* ------------------------------------------------------------------ inputs
\* the keys user code can present: null, undefined and the symbols issued so far
Keys == {Null, Undef} \cup {Sym(n) : n \in 1..symbols}
\* the user handler functions
Functions == {Fn(h) : h \in 1..NumHandlers}
NoOpts == [overrideEvt |-> Undef, overrideTime |-> Undef]
\* argument lists (key?, handler) of the one-handler priority methods
OneArgs(ks, hs) == {<<x>> : x \in hs \cup ks} \cup {<<k, x>> : k \in ks, x \in hs}
\* argument lists (key?, ...handlers) of the many-handler priority methods
ManyArgs(ks, hs) ==
    {<<x, y>> : x \in hs \cup ks, y \in hs} \cup {<<k, x, x>> : k \in ks, x \in hs}
\* argument lists of addHandlers / removeHandlers
PlainArgs(hs) == {<<x, y>> : x \in hs, y \in hs}
\* argument lists of on: none, one or two handlers
OnArgs(hs) == {<<>>} \cup {<<x>> : x \in hs} \cup PlainArgs(hs)

\* argument lists (key?, evt, evtKey?) of bind and unbind
BindArgLists(ks, es) ==
    {<<Obj(e)>> : e \in es} \cup {<<Obj(e), k>> : e \in es, k \in ks}
    \cup {<<k, Obj(e)>> : e \in es, k \in ks}
    \cup {<<k, Obj(e), k2>> : e \in es, k \in ks, k2 \in ks}

\* user code is at top level / inside a running user handler
AtTopLevel == stack = <<>>
InHandler == stack # <<>> /\ CanAct

LockOps(where, es, ks) ==
    \/ \E e \in es : where /\ Lock(e)
    \/ \E e \in es, k \in ks : where /\ Unlock(e, k)

PriorityOps(where, es, ks, hs) ==
    \/ \E e \in es, args \in OneArgs(ks, hs) : where /\ AddPriorityHandler(e, args)
    \/ \E e \in es, args \in ManyArgs(ks, hs) : where /\ AddPriorityHandlers(e, args)
    \/ \E e \in es, args \in OneArgs(ks, hs) : where /\ RemovePriorityHandler(e, args)
    \/ \E e \in es, args \in ManyArgs(ks, hs) : where /\ RemovePriorityHandlers(e, args)
    \/ \E e \in es, k \in ks : where /\ ClearPriorityHandlers(e, k)

NormalOps(where, es, hs) ==
    \/ \E e \in es, h \in hs \cup {Undef} : where /\ AddHandler(e, <<h>>)
    \/ \E e \in es, args \in PlainArgs(hs) : where /\ AddHandlers(e, args)
    \/ \E e \in es, h \in hs \cup {Undef} : where /\ RemoveHandler(e, <<h>>)
    \/ \E e \in es, args \in PlainArgs(hs) : where /\ RemoveHandlers(e, args)
    \/ \E e \in es, args \in OnArgs(hs) : where /\ On(e, args)
    \/ \E e \in es : where /\ ClearHandlers(e)

\* the progress of the fires in progress
Dispatch(nows, trace) ==
    \/ \E now \in nows : Invoke(now, trace)
    \/ HandlerReturn
    \/ PriorityLoopEnd
    \/ Finish

\* ------------------------------------------------------------------ handler lists
\* One event: locking and every method of the two lists at top level, with
\* every argument shape; fires whose handlers do nothing.
Next ==
    \/ LockOps(AtTopLevel, {S}, Keys \ {Null})
    \/ PriorityOps(AtTopLevel, {S}, Keys \ {Null}, Functions)
    \/ NormalOps(AtTopLevel, {S}, Functions)
    \/ \E k \in Keys \ {Null} : AtTopLevel /\ Call(S, k, Undef, Undef, NoOpts, 1)
    \/ Dispatch({1}, TRUE)

Spec == Init /\ [][Next]_vars

\* ------------------------------------------------------------------ locks
\* An Evt and a CompoundEvt: lock and unlock at top level and inside
\* handlers, and the methods that take a key.
NextLock ==
    \/ LockOps(AtTopLevel, {S, C}, Keys)
    \/ LockOps(InHandler, {S, C}, Keys)
    \/ \E e \in {S, C}, k \in Keys : AtTopLevel /\ ClearPriorityHandlers(e, k)
    \/ \E e \in {S, C}, k \in Keys : AtTopLevel /\ AddPriorityHandler(e, <<k, Fn(1)>>)
    \/ \E k \in Keys : AtTopLevel /\ Bind(C, <<k, Obj(S), k>>)
    \/ \E k \in Keys : AtTopLevel /\ Unbind(C, <<k, Obj(S)>>)
    \/ \E e \in {S, C}, k \in Keys : AtTopLevel /\ Call(e, k, Undef, Undef, NoOpts, 1)
    \/ Dispatch({1}, FALSE)

SpecLock == Init /\ [][NextLock]_vars

\* ------------------------------------------------------------------ fires
\* One Evt with both lists; its handlers cancel the fire or remove a handler
\* of either list while the fire is in progress.
NextFire ==
    \/ \E h \in Functions : AtTopLevel /\ AddPriorityHandler(S, <<h>>)
    \/ \E h \in Functions : AtTopLevel /\ AddHandler(S, <<h>>)
    \/ \E data \in {Undef, Str(1)}, now \in 1..MaxNow :
          AtTopLevel /\ Call(S, Undef, Undef, data, NoOpts, now)
    \/ \E i \in 1..Len(stack) : Cancel(i)
    \/ \E h \in Functions : InHandler /\ RemoveHandler(S, <<h>>)
    \/ \E h \in Functions : InHandler /\ RemovePriorityHandler(S, <<h>>)
    \/ Dispatch({1}, TRUE)

SpecFire == Init /\ [][NextFire]_vars
\* the same fires, with the lists each fire finds when it begins recorded
SpecModify == InitRecording /\ [][NextFire]_vars

\* ------------------------------------------------------------------ nested fires
\* An Evt and a CompoundEvt, either of which may be locked; handlers fire
\* either event again.
NextCall ==
    \/ \E h \in Functions : AtTopLevel /\ AddPriorityHandler(S, <<h>>)
    \/ AtTopLevel /\ AddHandler(S, <<Fn(1)>>)
    \/ AtTopLevel /\ AddHandler(C, <<Fn(1)>>)
    \/ \E e \in {S, C} : AtTopLevel /\ Lock(e)
    \/ \E e \in {S, C}, k \in Keys \ {Undef} :
          CanAct /\ Call(e, k, Undef, Undef, NoOpts, 1)
    \/ Dispatch({1}, TRUE)

SpecCall == Init /\ [][NextCall]_vars

\* ------------------------------------------------------------------ relay
\* the arguments (caller, data, opts) of the fires of the relay model
CallInputs ==
    {[caller |-> Undef, data |-> Undef, opts |-> NoOpts],
     [caller |-> Str(1), data |-> Str(2), opts |-> NoOpts],
     [caller |-> Undef, data |-> Str(2),
      opts |-> [overrideEvt |-> Obj(D), overrideTime |-> Num(MaxNow + 1)]]}

\* An Evt S and a CompoundEvt C that binds it: handlers are added to both
\* before and after the bind, S is fired with different arguments, and
\* handlers cancel the fire of S or of C.
NextRelay ==
    \/ \E h \in Functions : AtTopLevel /\ AddPriorityHandler(S, <<h>>)
    \/ AtTopLevel /\ AddHandlers(S, <<Fn(1), Fn(2)>>)
    \/ AtTopLevel /\ AddPriorityHandler(C, <<Fn(1)>>)
    \/ \E h \in Functions : AtTopLevel /\ AddHandler(C, <<h>>)
    \/ AtTopLevel /\ Bind(C, <<Obj(S)>>)
    \/ \E a \in CallInputs, now \in 1..MaxNow :
          AtTopLevel /\ Call(S, Undef, a.caller, a.data, a.opts, now)
    \/ \E i \in 1..Len(stack) : Cancel(i)
    \/ Dispatch(1..MaxNow, TRUE)

SpecRelay == Init /\ [][NextRelay]_vars

\* ------------------------------------------------------------------ bindings
\* the keys user code presents to the keyed methods: none, or a symbol issued
PresentedKeys == Keys \ {Null}
\* argument lists of bind: every shape for the source S, and the compound
\* itself as the source
BindInputs ==
    BindArgLists(PresentedKeys, {S}) \cup {<<Obj(C)>>} \cup {<<k, Obj(C)>> : k \in PresentedKeys}
\* argument lists of unbind
UnbindInputs == {<<Obj(S)>>} \cup {<<k, Obj(S)>> : k \in PresentedKeys}

\* An Evt S and a CompoundEvt C, either of which is locked, unlocked and
\* locked again at any time; S is bound and unbound with every argument
\* shape, its priority list is added to, cleared and removed from, and it is
\* fired.
NextBind ==
    \/ LockOps(AtTopLevel, {S, C}, PresentedKeys)
    \/ \E args \in BindInputs : AtTopLevel /\ Bind(C, args)
    \/ \E args \in UnbindInputs : AtTopLevel /\ Unbind(C, args)
    \/ \E k \in PresentedKeys : AtTopLevel /\ AddPriorityHandler(S, <<k, Fn(1)>>)
    \/ \E k \in PresentedKeys : AtTopLevel /\ ClearPriorityHandlers(S, k)
    \/ \E k \in PresentedKeys : AtTopLevel /\ RemovePriorityHandlers(S, <<k, Fn(2)>>)
    \/ AtTopLevel /\ AddHandler(C, <<Fn(1)>>)
    \/ \E k \in PresentedKeys : AtTopLevel /\ Call(S, k, Undef, Undef, NoOpts, 1)
    \/ Dispatch({1}, TRUE)

SpecBind == Init /\ [][NextBind]_vars

\* ------------------------------------------------------------------ the relay's key
\* An Evt S bound to a CompoundEvt C that is locked, unlocked and locked
\* again before and after the bind, at top level and by the handlers of S
\* and C; S is fired, and C is fired directly with every key.
NextKey ==
    \/ LockOps(AtTopLevel, {C}, PresentedKeys)
    \/ LockOps(InHandler, {C}, PresentedKeys)
    \/ AtTopLevel /\ AddPriorityHandler(S, <<Fn(1)>>)
    \/ AtTopLevel /\ AddHandler(C, <<Fn(1)>>)
    \/ \E k \in PresentedKeys : AtTopLevel /\ Bind(C, <<k, Obj(S)>>)
    \/ AtTopLevel /\ Call(S, Undef, Undef, Undef, NoOpts, 1)
    \/ \E k \in Keys : AtTopLevel /\ Call(C, k, Undef, Undef, NoOpts, 1)
    \/ Dispatch({1}, TRUE)

SpecKey == Init /\ [][NextKey]_vars

\* ------------------------------------------------------------------ binding graphs
\* the running user handler has just been invoked and has done nothing yet
JustInvoked == InHandler /\ last.op = "invoke"

\* An Evt and two CompoundEvt bound to each other in every way, cycles
\* included; each event has at most one user handler, which fires any one
\* event and returns.  A fire in progress always takes its next step (the
\* engine runs call to completion).
NextCycle ==
    \/ \E c \in {C, D}, e \in Evts : AtTopLevel /\ Bind(c, <<Obj(e)>>)
    \/ \E e \in Evts : AtTopLevel /\ AddHandler(e, <<Fn(1)>>)
    \/ \E e \in Evts : AtTopLevel /\ Call(e, Undef, Undef, Undef, NoOpts, 1)
    \/ \E e \in Evts : JustInvoked /\ Call(e, Undef, Undef, Undef, NoOpts, 1)
    \/ Dispatch({1}, FALSE)

SpecCycle == Init /\ [][NextCycle]_vars /\ WF_vars(Dispatch({1}, FALSE))

\* ------------------------------------------------------------------ exceptions
\* An Evt S, lockable, bound to a CompoundEvt C; the handlers fire either
\* event, return or throw, and the exception is caught at any level of user
\* code.
NextThrow ==
    \/ AtTopLevel /\ AddPriorityHandler(S, <<Fn(1)>>)
    \/ \E e \in {S, C} : AtTopLevel /\ AddHandler(e, <<Fn(1)>>)
    \/ AtTopLevel /\ Bind(C, <<Obj(S)>>)
    \/ AtTopLevel /\ Lock(S)
    \/ \E e \in {S, C}, k \in PresentedKeys :
          AtTopLevel /\ Call(e, k, Undef, Undef, NoOpts, 1)
    \/ \E e \in {S, C}, k \in PresentedKeys :
          JustInvoked /\ Call(e, k, Undef, Undef, NoOpts, 1)
    \/ \E n \in 0..(Len(stack) - 1) : Throw(n)
    \/ Dispatch({1}, FALSE)

SpecThrow == Init /\ [][NextThrow]_vars

\* ------------------------------------------------------------------ properties
IsPrefix(s, t) == Len(s) <= Len(t) /\ \A i \in 1..Len(s) : s[i] = t[i]
NoDuplicates(s) == \A i, j \in 1..Len(s) : s[i] = s[j] => i = j
\* list s without the functions of the set hs, the order of the others kept
Without(s, hs) == SelectSeq(s, LAMBDA h : h \notin hs)
\* the function numbers among the values of a sequence
FunctionsIn(args) == {args[i].v : i \in {j \in 1..Len(args) : IsFunction(args[j])}}
\* the handlers a fire has invoked so far, from the log
FireLog(f) == SelectSeq(SubSeq(log, f.base + 1, Len(log)), LAMBDA x : x.this = f.this)
\* the loops of the innermost fire are over: call is about to clear #pending and return
Returning == /\ stack # <<>>
             /\ Top.running = 0
             /\ Top.pc = "norm"
             /\ (Top.idx >= Len(Arr(Top)) \/ Top.cancelled)
PriorityOpNames == {"addPriorityHandler", "addPriorityHandlers", "removePriorityHandler",
                    "removePriorityHandlers", "clearPriorityHandlers"}
NormalAddNames == {"addHandler", "addHandlers", "on"}
NormalRemoveNames == {"removeHandler", "removeHandlers"}

\* C6: while an event is locked, a priority method called with a missing or
\* non-matching token leaves the priority list unchanged; the methods of the
\* normal list take effect without a token (every function added is in the
\* list afterwards, every function removed is not, clear empties it) and
\* change neither the priority list nor the lock.
C6_Step ==
    LET e == last'.evt IN
    /\ (last'.op \in PriorityOpNames /\ locked(e) /\ Arg(last'.args, 1) # key[e])
          => priorityHandlers' = priorityHandlers
    /\ last'.op \in NormalAddNames
          => /\ FunctionsIn(last'.args) \subseteq Range(handlers'[e])
             /\ priorityHandlers' = priorityHandlers /\ key' = key
    /\ last'.op \in NormalRemoveNames
          => /\ FunctionsIn(last'.args) \cap Range(handlers'[e]) = {}
             /\ priorityHandlers' = priorityHandlers /\ key' = key
    /\ last'.op = "clearHandlers"
          => /\ handlers'[e] = <<>>
             /\ priorityHandlers' = priorityHandlers /\ key' = key
C6_OnlyPriorityKeyGated == [][C6_Step]_vars

\* a locked event refused a removal that named a present priority handler
\* without the token, and then accepted a normal handler without a token
C6_Witness ==
    /\ locked(S)
    /\ last.op = "addHandler" /\ last.evt = S /\ last.args = <<Fn(1)>>
    /\ handlers[S] = <<1>>
    /\ priorityHandlers[S] = <<1, 2>>

\* C7: no list ever holds a function twice; an add keeps the old list as a
\* prefix of the new one (so adding a present function changes nothing); and
\* a fire whose lists are not modified meanwhile invokes no handler of a list
\* twice.
C7_AddStep ==
    (last'.op \in NormalAddNames \cup {"addPriorityHandler", "addPriorityHandlers"})
        => /\ IsPrefix(priorityHandlers[last'.evt], priorityHandlers'[last'.evt])
           /\ IsPrefix(handlers[last'.evt], handlers'[last'.evt])
C7_OncePerFire ==
    \A n \in 1..Len(stack) :
        stack[n].this \notin modified =>
            \A i, j \in 1..Len(FireLog(stack[n])) :
                (FireLog(stack[n])[i].list = FireLog(stack[n])[j].list
                 /\ FireLog(stack[n])[i].handler = FireLog(stack[n])[j].handler) => i = j
C7_AtMostOnce ==
    /\ [](\A e \in Evts : NoDuplicates(priorityHandlers[e]) /\ NoDuplicates(handlers[e]))
    /\ [][C7_AddStep]_vars
    /\ []C7_OncePerFire

\* h1 was passed twice to addHandlers while present, the list still holds it
\* once
C7_Witness ==
    /\ last.op = "addHandlers" /\ last.args = <<Fn(1), Fn(1)>>
    /\ handlers[S] = <<1, 2>>

\* the functions a one-handler / many-handler priority method names
NamedOne(args) == IF Len(args) = 1 THEN FunctionsIn(args) ELSE FunctionsIn(<<args[2]>>)
NamedMany(args) == IF IsFunction(args[1]) THEN FunctionsIn(args) ELSE FunctionsIn(Tail(args))

\* C8: each of the four remove methods, called with a validating key, leaves
\* the previous list without the named functions, the order of the others
\* kept; naming an absent function removes nothing.
C8_Step ==
    LET e == last'.evt
        args == last'.args
    IN  /\ last'.op \in NormalRemoveNames
              => handlers'[e] = Without(handlers[e], FunctionsIn(args))
        /\ (last'.op = "removePriorityHandler" /\ validateKey(e, args[1]))
              => priorityHandlers'[e] = Without(priorityHandlers[e], NamedOne(args))
        /\ (last'.op = "removePriorityHandlers" /\ validateKey(e, args[1]))
              => priorityHandlers'[e] = Without(priorityHandlers[e], NamedMany(args))
C8_RemoveExact == [][C8_Step]_vars

\* a return value that signals failure: null or undefined
Nothing(x) == x \in {Null, Undef}

\* C5: lock on an unlocked event stores and returns a symbol never issued
\* before, on a locked event it returns nothing and keeps the key; unlock(t)
\* clears the lock and returns t when t is the stored key, otherwise it
\* returns nothing and the lock stays as it is; no other step changes the key
\* of a locked event.
C5_Step ==
    LET e == last'.evt
        t == Arg(last'.args, 1)
    IN  /\ last'.op = "lock" =>
              IF locked(e)
              THEN Nothing(last'.val) /\ key' = key
              ELSE /\ last'.val.t = "symbol"
                   /\ last'.val.v \notin 1..symbols
                   /\ \A d \in Evts : key[d] # last'.val
                   /\ key' = [key EXCEPT ![e] = last'.val]
        /\ last'.op = "unlock" =>
              IF locked(e) /\ t = key[e]
              THEN /\ last'.val = t
                   /\ ~Truthy(key'[e])
                   /\ \A d \in Evts \ {e} : key'[d] = key[d]
              ELSE /\ Nothing(last'.val)
                   /\ \A d \in Evts : locked(d) => key'[d] = key[d]
                   /\ \A d \in Evts : Truthy(key'[d]) = Truthy(key[d])
        /\ last'.op \notin {"lock", "unlock"} => key' = key
C5_LockProtocol == [][C5_Step]_vars

\* the compound was locked, unlocked with its token and locked again: it
\* holds the second symbol, and an unlock with the first one was refused
C5_Witness ==
    /\ key[C] = Sym(2)
    /\ last.op = "unlock" /\ last.evt = C /\ last.args = <<Sym(1)>> /\ last.val = Null

\* what a fire of e invokes when nothing interferes: the priority list, then
\* the normal list
Expected(e) ==
    [i \in 1..(Len(priorityHandlers[e]) + Len(handlers[e])) |->
        IF i <= Len(priorityHandlers[e])
        THEN <<"prio", priorityHandlers[e][i]>>
        ELSE <<"norm", handlers[e][i - Len(priorityHandlers[e])]>>]
\* the (loop, handler) pairs a fire has invoked so far
Invoked(f) == [i \in 1..Len(FireLog(f)) |-> <<FireLog(f)[i].list, FireLog(f)[i].handler>>]
\* the idle state of the frame: the loops are over
Over(f) == f.running = 0 /\ f.pc = "norm" /\ (f.idx >= Len(Arr(f)) \/ f.cancelled)

\* C1: in a fire whose lists are not modified meanwhile, the handlers invoked
\* so far are a prefix of: the priority list, then the normal list; when the
\* loops are over and nothing cancelled, they are exactly that sequence; and
\* every handler was passed the firing record of the fire and the event.
C1_InvocationOrder ==
    \A n \in 1..Len(stack) :
        LET f == stack[n] IN
        /\ \A i \in 1..Len(FireLog(f)) : FireLog(f)[i].instance = f.instance
        /\ f.this \notin modified =>
              /\ IsPrefix(Invoked(f), Expected(f.this))
              /\ (Over(f) /\ ~f.cancelled /\ Len(log) < MaxLog)
                    => Invoked(f) = Expected(f.this)

\* a fire of S with two priority and two normal handlers is about to return
\* after four invocations
C1_Witness ==
    /\ Returning /\ Top.this = S /\ ~Top.cancelled /\ S \notin modified
    /\ priorityHandlers[S] = <<2, 1>> /\ handlers[S] = <<1, 2>>
    /\ Len(FireLog(Top)) = 4

\* C2: a cancel leaves the running handler running; a fire whose record is
\* cancelled invokes no further handler; once its running handler has
\* returned the fire is about to return, and the return clears #pending and
\* hands back the firing record.
C2_Step ==
    /\ last'.op = "cancel" =>
          /\ Len(stack') = Len(stack)
          /\ \A n \in 1..Len(stack) : stack'[n].running = stack[n].running
    /\ last'.op = "invoke" => ~Top.cancelled
    /\ last'.op = "return" =>
          /\ ~pending'[Top.this]
          /\ last'.val = Instance(Top.instance)
          /\ stack' = SubSeq(stack, 1, Len(stack) - 1)
C2_Cancellation ==
    /\ [][C2_Step]_vars
    /\ [](stack # <<>> /\ Top.cancelled /\ Top.running = 0 => Returning)

\* the first of two priority handlers cancelled: the fire is about to return
\* having invoked nothing else
C2_Witness ==
    /\ Returning /\ Top.this = S /\ Top.cancelled /\ S \notin modified
    /\ Len(priorityHandlers[S]) = 2 /\ Len(handlers[S]) = 2
    /\ Invoked(Top) = <<<<"prio", priorityHandlers[S][1]>>>>

\* the event is unlocked, or the token is the stored key
Validates(e, k) == ~locked(e) \/ k = key[e]

\* C3: a call is let in exactly when the event is not pending and the token
\* validates, and a call let in returns the firing record; a call turned away
\* returns null and changes neither lists, key, flag, stack nor log.
C3_Step ==
    LET e == last'.evt
        k == Arg(last'.args, 1)
    IN  /\ last'.op \in {"call", "enter"} =>
              (last'.op = "enter" <=> (~pending[e] /\ Validates(e, k)))
        /\ last'.op = "call" =>
              /\ last'.val = Null
              /\ UNCHANGED <<priorityHandlers, handlers, key, pending, stack, log>>
        /\ last'.op = "enter" => pending'[e] /\ stack' = Append(stack, Top') /\ Top'.this = e
        /\ last'.op = "return" => last'.val.t = "instance"
C3_FireGuard == [][C3_Step]_vars

\* the locked compound, not pending and with a handler, turned away a call
\* with the token of the other event
C3_Witness ==
    /\ last.op = "call" /\ last.evt = C /\ last.val = Null
    /\ key[C] = Sym(2) /\ last.args[1] = Sym(1)
    /\ ~pending[C] /\ handlers[C] # <<>>

\* C4: a call of an event that has a fire in progress is turned away, with
\* no handler invoked and nothing changed; so an event has at most one frame,
\* is pending exactly while it has one, and an unmodified, uncancelled fire
\* has invoked each handler of its lists exactly once when its loops are
\* over; a handler's call of an event without a frame (token validating) is
\* let in.
OnStack(e) == \E n \in 1..Len(stack) : stack[n].this = e
Count(f, pair) == Cardinality({i \in 1..Len(Invoked(f)) : Invoked(f)[i] = pair})
C4_Step ==
    LET e == last'.evt
        k == Arg(last'.args, 1)
    IN  /\ (last'.op \in {"call", "enter"} /\ OnStack(e)) =>
              /\ last'.op = "call" /\ last'.val = Null
              /\ UNCHANGED <<priorityHandlers, handlers, key, pending, stack, log>>
        /\ (last'.op \in {"call", "enter"} /\ stack # <<>> /\ ~OnStack(e) /\ Validates(e, k)) =>
              last'.op = "enter"
C4_State ==
    /\ \A e \in Evts : pending[e] <=> OnStack(e)
    /\ \A m, n \in 1..Len(stack) : stack[m].this = stack[n].this => m = n
    /\ \A n \in 1..Len(stack) :
          LET f == stack[n] IN
          (Over(f) /\ ~f.cancelled /\ f.this \notin modified /\ Len(log) < MaxLog) =>
              \A i \in 1..Len(Expected(f.this)) : Count(f, Expected(f.this)[i]) = 1
C4_Reentrancy == [][C4_Step]_vars /\ []C4_State

\* S fired, its handler fired C, and the handler of C fired S again: turned
\* away while both fires are in progress
C4_Witness ==
    /\ Len(stack) = 2 /\ stack[1].this = S /\ stack[2].this = C
    /\ last.op = "call" /\ last.evt = S /\ last.val = Null
    /\ Validates(S, last.args[1])

\* the relay of C was invoked by a fire of S: number of times, from the log
RelayInvocations == Cardinality({i \in 1..Len(log) : log[i].this = S /\ log[i].handler = Relay(C)})

\* C9 as stated: with S bound to C, an outermost fire of S that is about to
\* return has fired C exactly once (C is fired by nothing else, so once per
\* invocation of the relay), and the handlers of C were passed a record whose
\* evt is S and whose time, caller and data are those of the record of S.
C9_EveryFireRelayed ==
    (Returning /\ Len(stack) = 1 /\ Top.this = S /\ S \in Range(evts[C]) /\ Len(log) < MaxLog) =>
        /\ RelayInvocations = 1
        /\ \A i \in 1..Len(log) : log[i].this = C =>
              /\ log[i].instance.evt = Obj(S)
              /\ log[i].instance.time = Top.instance.time
              /\ log[i].instance.caller = Top.instance.caller
              /\ log[i].instance.data = Top.instance.data

\* C9 amended: whenever a fire invokes the relay of a compound that is not
\* pending, exactly one fire of the compound starts inside that invocation,
\* and the record of that fire, which is the one its handlers are passed,
\* has the evt, time, caller and data of the record of the invoking fire.
C9_Step ==
    (last'.op = "invoke" /\ IsRelay(last'.args[1].v) /\ ~pending[RelayOwner(last'.args[1].v)]) =>
        /\ Len(stack') = Len(stack) + 1
        /\ Top'.this = RelayOwner(last'.args[1].v)
        /\ pending'[Top'.this]
        /\ Top'.instance.evt = Top.instance.evt
        /\ Top'.instance.time = Top.instance.time
        /\ Top'.instance.caller = Top.instance.caller
        /\ Top'.instance.data = Top.instance.data
C9_State ==
    \A n \in 1..(Len(stack) - 1) :
        IsRelay(stack[n].running) =>
            /\ stack[n + 1].this = RelayOwner(stack[n].running)
            /\ stack[n + 1].instance = stack[n].instance
            /\ \A i \in 1..Len(FireLog(stack[n + 1])) :
                  FireLog(stack[n + 1])[i].instance = stack[n].instance
C9_RelayRecord == [][C9_Step]_vars /\ []C9_State

\* S was fired with a caller and data, its relay fired C, and a handler of C
\* is running with a record that names S
C9_Witness ==
    /\ Len(stack) = 2 /\ stack[1].this = S /\ stack[1].running = Relay(C)
    /\ stack[2].this = C /\ stack[2].running = 1
    /\ log[Len(log)].instance.evt = Obj(S)
    /\ log[Len(log)].instance.caller = Str(1)
    /\ log[Len(log)].instance.time = Num(2)

RECURSIVE IsSubseq(_, _)
IsSubseq(s, t) ==
    IF s = <<>> THEN TRUE
    ELSE IF t = <<>> THEN FALSE
    ELSE IF Head(s) = Head(t) THEN IsSubseq(Tail(s), Tail(t))
    ELSE IsSubseq(s, Tail(t))
\* the log as (event, loop, handler) triples
LogTriples == [i \in 1..Len(log) |-> <<log[i].this, log[i].list, log[i].handler>>]
Tag(e, pairs) == [i \in 1..Len(pairs) |-> <<e, pairs[i][1], pairs[i][2]>>]
\* the documented sequence of a fire of S with C bound: the priority handlers
\* of S up to the relay, the handlers of C, the priority handlers of S after
\* the relay, the normal handlers of S
RelayExpected ==
    LET P == priorityHandlers[S]
        r == IndexOf(P, Fn(Relay(C))) + 1
    IN  Tag(S, SubSeq(Expected(S), 1, r)) \o Tag(C, Expected(C))
        \o Tag(S, SubSeq(Expected(S), r + 1, Len(Expected(S))))

\* C10: handlers are only appended to the lists of S and a bind appends the
\* relay, so the priority handlers added before the bind are those in front
\* of the relay; the invocations of a fire of S follow the documented
\* sequence, and are exactly that sequence when the loops of S are over and
\* no fire was cancelled.
C10_Step ==
    /\ IsPrefix(priorityHandlers[S], priorityHandlers'[S])
    /\ IsPrefix(handlers[S], handlers'[S])
    /\ (last'.op = "bind" /\ last'.val = Obj(C) /\ S \notin Range(evts[C]))
          => priorityHandlers'[S] = Append(priorityHandlers[S], Relay(C))
C10_State ==
    (stack # <<>> /\ stack[1].this = S /\ Relay(C) \in Range(priorityHandlers[S])
     /\ modified = {}) =>
        /\ IsSubseq(LogTriples, RelayExpected)
        /\ (Len(stack) = 1 /\ Over(Top) /\ cancels = {} /\ Len(log) < MaxLog)
              => LogTriples = RelayExpected
C10_RelayOrder == [][C10_Step]_vars /\ []C10_State

\* the documented run: priority 1, (relay,) compound priority 1, compound
\* handler 1, priority 2, handler 1, handler 2
C10_Witness ==
    /\ Returning /\ Len(stack) = 1 /\ cancels = {}
    /\ LogTriples = << <<S, "prio", 1>>, <<S, "prio", Relay(C)>>, <<C, "prio", 1>>,
                       <<C, "norm", 1>>, <<S, "prio", 2>>, <<S, "norm", 1>>,
                       <<S, "norm", 2>> >>

\* C11: a cancel called by a handler of the compound on the record it was
\* passed, during a fire of C started by the relay on S, sets the flag of the
\* fire of C only: the frame of S is left as it was, the fire of C invokes no
\* further handler, and the fire of S, unless its own record is cancelled,
\* goes on to invoke every priority handler behind the relay and every
\* normal handler.
C11_Step ==
    (last'.op = "cancel" /\ Len(stack) = 2 /\ stack[1].this = S /\ stack[2].this = C
     /\ last'.args = <<Num(2)>>) =>
        /\ stack'[1] = stack[1]
        /\ stack'[2] = [stack[2] EXCEPT !.cancelled = TRUE]
C11_State ==
    (stack # <<>> /\ stack[1].this = S /\ modified = {}) =>
        /\ (C \in cancels /\ S \notin cancels) => ~stack[1].cancelled
        /\ (Len(stack) = 1 /\ Over(Top) /\ S \notin cancels /\ Len(log) < MaxLog)
              => Invoked(Top) = Expected(S)
C11_CancelScoped == [][C11_Step]_vars /\ []C11_State

\* the priority handler of C cancelled the fire of C: its normal handlers
\* were skipped, and S went on with its second priority handler and both of
\* its normal handlers
C11_Witness ==
    /\ Returning /\ Len(stack) = 1 /\ cancels = {C}
    /\ handlers[C] # <<>>
    /\ LogTriples = << <<S, "prio", Relay(C)>>, <<C, "prio", 1>>, <<S, "prio", 2>>,
                       <<S, "norm", 1>>, <<S, "norm", 2>> >>

\* bind and unbind as the caller means them: the first argument is the source
\* (the compound's key left out), or the compound's key followed by the source
ShortForm(args) == InstanceOfEvt(Arg(args, 1))
SourceArg(args) == IF ShortForm(args) THEN Arg(args, 1) ELSE Arg(args, 2)
SourceKeyArg(args) == IF ShortForm(args) THEN Arg(args, 2) ELSE Arg(args, 3)
\* the compound's key validates: left out, it validates while the compound
\* is unlocked
CompoundKeyValidates(c, args) ==
    IF ShortForm(args) THEN ~locked(c) ELSE Validates(c, Arg(args, 1))
\* the number of positions of the priority list of e that hold the relay of c
RelayCount(e, c) ==
    Cardinality({i \in 1..Len(priorityHandlers[e]) : priorityHandlers[e][i] = Relay(c)})
\* e is recorded as bound in c
Bound(c, e) == e \in Range(evts[c])

\* C12: an unbind of S that returns the compound leaves S not recorded in C
\* and the priority list of S equal to the list before with the relay taken
\* out, one shorter and the others in order; and while S is not recorded the
\* relay is not in the list of S, so no fire of S invokes it.
C12_Step ==
    (last'.op = "unbind" /\ last'.val = Obj(C) /\ SourceArg(last'.args) = Obj(S)) =>
        /\ S \notin Range(evts'[C])
        /\ priorityHandlers'[S] = Without(priorityHandlers[S], {Relay(C)})
        /\ Len(priorityHandlers'[S]) = Len(priorityHandlers[S]) - 1
        /\ handlers' = handlers
C12_State ==
    ~Bound(C, S) =>
        /\ RelayCount(S, C) = 0
        /\ \A i \in 1..Len(log) : log[i].handler # Relay(C)
C12_UnbindExact == [][C12_Step]_vars /\ []C12_State

\* C13: a bind of S while S is recorded in C, with the compound's key and the
\* source's key validating, returns the compound and changes nothing; the
\* list of S then holds the relay of C exactly once, and a fire of S that
\* nothing cancels or modifies has fired C exactly once when its loops are
\* over.
C13_Step ==
    (/\ last'.op = "bind" /\ last'.evt = C /\ SourceArg(last'.args) = Obj(S)
     /\ Bound(C, S)
     /\ CompoundKeyValidates(C, last'.args)
     /\ Validates(S, SourceKeyArg(last'.args))) =>
        /\ last'.val = Obj(C)
        /\ UNCHANGED <<priorityHandlers, handlers, key, pending, evts, evtsData>>
        /\ RelayCount(S, C) = 1
C13_State ==
    /\ RelayCount(S, C) <= 1
    /\ (Returning /\ Len(stack) = 1 /\ Top.this = S /\ Bound(C, S)
        /\ cancels = {} /\ modified = {} /\ Len(log) < MaxLog)
          => RelayInvocations = 1
C13_BindIdempotent == [][C13_Step]_vars /\ []C13_State

\* C14: bind returns the compound or nothing; it returns the compound
\* exactly when the source is an event other than the compound, the
\* compound's key validates (left out, only while the compound is unlocked)
\* and the source's key validates; when it returns nothing, no list and no
\* binding record has changed.
C14_Step ==
    LET c == last'.evt
        args == last'.args
        src == SourceArg(args)
    IN  last'.op = "bind" =>
            /\ last'.val \in {Null, Obj(c)}
            /\ last'.val = Obj(c) <=>
                  (/\ InstanceOfEvt(src) /\ src # Obj(c)
                   /\ CompoundKeyValidates(c, args)
                   /\ Validates(src.v, SourceKeyArg(args)))
            /\ last'.val = Null =>
                  UNCHANGED <<priorityHandlers, handlers, key, pending, evts, evtsData>>
C14_BindFailure == [][C14_Step]_vars

\* the locked compound refused bind(S), the form without its key: nothing is
\* installed on S and nothing recorded
C14_Witness ==
    /\ last.op = "bind" /\ last.args = <<Obj(S)>> /\ last.val = Null
    /\ locked(C) /\ ~locked(S)
    /\ priorityHandlers[S] = <<1>> /\ evts[C] = <<>>

\* the key of e that c recorded when it bound e
RecordedKey(c, e) == evtsData[c][EvtIndex(c, e)].key

\* C15: unbind returns nothing and leaves every list and binding record as
\* it was when the source is not recorded as bound, or the compound's key
\* does not validate (left out, it validates only while the compound is
\* unlocked), or the key recorded at bind time does not validate against the
\* source as it is now; otherwise it returns the compound.
C15_Step ==
    LET c == last'.evt
        args == last'.args
        src == SourceArg(args)
        bound == InstanceOfEvt(src) /\ Bound(c, src.v)
        fails == \/ ~bound
                 \/ ~CompoundKeyValidates(c, args)
                 \/ ~Validates(src.v, RecordedKey(c, src.v))
    IN  last'.op = "unbind" =>
            IF fails
            THEN /\ last'.val = Null
                 /\ UNCHANGED <<priorityHandlers, handlers, key, pending, evts, evtsData>>
            ELSE last'.val = Obj(c)
C15_UnbindFailure == [][C15_Step]_vars

\* S was bound while locked with its first token, then unlocked and locked
\* again: the unbind was refused, S is still recorded and the relay is still
\* in its list
C15_Witness ==
    /\ last.op = "unbind" /\ last.args = <<Obj(S)>> /\ last.val = Null
    /\ ~locked(C)
    /\ Bound(C, S) /\ RecordedKey(C, S) = Sym(1) /\ key[S] = Sym(2)
    /\ priorityHandlers[S] = <<Relay(C)>>

\* what a fire of e was to invoke, from the lists it found when it began
ExpectedAtStart(e) ==
    [i \in 1..(Len(atStart[e].priority) + Len(atStart[e].normal)) |->
        IF i <= Len(atStart[e].priority)
        THEN <<"prio", atStart[e].priority[i]>>
        ELSE <<"norm", atStart[e].normal[i - Len(atStart[e].priority)]>>]

\* C16: when the loops of a fire that was not cancelled are over, the
\* handlers that were in the two lists when the fire began have each been
\* invoked exactly once, in the order of the lists, whatever the handlers
\* did to the lists meanwhile.
C16_EveryHandlerOnce ==
    \A n \in 1..Len(stack) :
        LET f == stack[n]
            want == ExpectedAtStart(f.this)
        IN  (Over(f) /\ ~f.cancelled /\ Len(log) < MaxLog) =>
                SelectSeq(Invoked(f), LAMBDA x : x \in Range(want)) = want

\* C17: whenever a fire invokes the relay of a compound that is not being
\* fired, the fire of the compound starts, whatever the key of the compound
\* is at that moment; so a fire of S with the relay in its list, which
\* nothing cancels, has invoked the relay once and every handler of C when
\* its loops are over; and a direct call of the locked C with anything but
\* its current key is turned away: it returns null, starts no fire and
\* invokes nothing.
C17_Step ==
    /\ (last'.op = "invoke" /\ IsRelay(last'.args[1].v)
        /\ ~pending[RelayOwner(last'.args[1].v)]) =>
            /\ Len(stack') = Len(stack) + 1
            /\ Top'.this = RelayOwner(last'.args[1].v)
    /\ (last'.op \in {"call", "enter"} /\ last'.evt = C /\ locked(C)
        /\ Arg(last'.args, 1) # key[C]) =>
            /\ last'.op = "call" /\ last'.val = Null
            /\ UNCHANGED <<stack, log, pending>>
C17_State ==
    (Returning /\ Len(stack) = 1 /\ Top.this = S /\ RelayCount(S, C) = 1
     /\ cancels = {} /\ modified = {} /\ Len(log) < MaxLog) =>
        /\ RelayInvocations = 1
        /\ IsSubseq(Tag(C, Expected(C)), LogTriples)
C17_RelayOwnKey == [][C17_Step]_vars /\ []C17_State

\* C was locked, unlocked and locked again with a second token after the
\* bind; a fire of S returns having run the handler of C
C17_Witness ==
    /\ Returning /\ Len(stack) = 1 /\ Top.this = S
    /\ key[C] = Sym(2) /\ Bound(C, S)
    /\ LogTriples = << <<S, "prio", Relay(C)>>, <<C, "norm", 1>>, <<S, "prio", 1>> >>

\* C18: S is recorded as bound in C exactly when the priority list of S holds
\* the relay of C, once; and the list of S holds the relay after every bind
\* of S that returns the compound.
C18_Step ==
    (last'.op = "bind" /\ last'.val = Obj(C) /\ SourceArg(last'.args) = Obj(S)) =>
        Relay(C) \in Range(priorityHandlers'[S])
C18_State == Bound(C, S) <=> RelayCount(S, C) = 1
C18_BindingConsistent == [][C18_Step]_vars /\ []C18_State

\* C19: no event has two fires in progress, so the fires in progress are at
\* most as many as the events; once no fire is in progress no event is
\* pending; and every fire in progress leads to a state with none in
\* progress.
C19_State ==
    /\ \A m, n \in 1..Len(stack) : stack[m].this = stack[n].this => m = n
    /\ Len(stack) <= Cardinality(Evts)
    /\ stack = <<>> => \A e \in Evts : ~pending[e]
C19_Termination == []C19_State /\ (stack # <<>> ~> stack = <<>>)

\* C and D are bound to each other: a fire of C ran the relay of D, the fire
\* of D ran the relay of C, and that relay's call of C was turned away
C19_Witness ==
    /\ Bound(C, D) /\ Bound(D, C)
    /\ Len(stack) = 2 /\ stack[1].this = C /\ stack[1].running = Relay(D)
    /\ stack[2].this = D /\ stack[2].running = Relay(C)

\* C20: an event is pending only while one of the calls in progress is a fire
\* of it, also after a handler threw; so a call of an event that has no fire
\* in progress, with a key that validates, is let in.
C20_Step ==
    LET e == last'.evt
        k == Arg(last'.args, 1)
    IN  (last'.op \in {"call", "enter"} /\ ~OnStack(e) /\ Validates(e, k)) =>
            last'.op = "enter"
C20_State == \A e \in Evts : pending[e] => OnStack(e)
C20_PendingCleared == []C20_State /\ [][C20_Step]_vars

====
